---- MODULE Spec2Model ----
(***************************************************************************)
(* Puzzle_Game: a 5x5 grid puzzle (game_eval.py) and its planner           *)
(* (solution.py).  Agents move one tile at a time; the tile of value 2     *)
(* gives an agent its target colour, the tile of value 3 opens the door    *)
(* cell in the obstacle wall.  The planner searches the joint state        *)
(* (positions, colours, door) with BFS, DFS or A*.                         *)
(***************************************************************************)
EXTENDS Integers, Sequences, FiniteSets, TLC

VARIABLES
    cfg,            \* index of the configuration the game was constructed with
    world,          \* Game.world: the live grid, world[y][x] in 0..3
    agents,         \* Player.pos of every agent, a sequence of <<x, y>>
    color,          \* Player.color of every agent
    auto,           \* Game.auto
    active_agent,   \* Game.active_agent (0-based, as in the code)
    loop,           \* Game.loop
    plan,           \* Solution.plan
    initialized,    \* Solution.initialized
    algorithm,      \* Solution.algorithm
    pc,             \* position in Game.grid_loop / which part of the program runs
    js,             \* a joint state (positions, colors, door) of the planner
    srch,           \* the local variables of a search strategy (in the game, of
                    \* the one that has returned: its snapshot and its result)
    keys,           \* arrow-key events handled so far
    calls,          \* calls of bfs_plan, dfs_plan or astar_plan so far
    presses,        \* K_a events handled so far
    last_test       \* what test_move returned to the latest move_player

vars == <<cfg, world, agents, color, auto, active_agent, loop, plan,
          initialized, algorithm, pc, js, srch, keys, calls, presses, last_test>>

\* Python's None, where the code stores it beside tuples (next_state's result,
\* the start state's parent entry, find_color_tile's result).
None == << >>

(***************************************************************************)
(* Program constants (game_eval.py)                                        *)
(***************************************************************************)
TILES_HORIZONTAL == 5
TILES_VERTICAL == 5

WHITE == "white"

\* The four deltas in the order every search loop tries them.
Deltas == << <<0, 1>>, <<0, -1>>, <<1, 0>>, <<-1, 0>> >>

\* A grid literal (rows top to bottom) as world[y][x] with 0-based indices.
Grid(rows) ==
    [y \in 0..(TILES_VERTICAL - 1) |->
        [x \in 0..(TILES_HORIZONTAL - 1) |-> rows[y + 1][x + 1]]]

(***************************************************************************)
(* Configurations.  Configuration 1 is Game.__init__ as written; the       *)
(* others replace its data (grid, door, agents, targets) and keep the      *)
(* code.                                                                   *)
(***************************************************************************)
DefaultWorld ==
    Grid(<< <<0, 0, 0, 1, 0>>,
            <<0, 0, 2, 1, 0>>,
            <<0, 0, 0, 1, 0>>,
            <<0, 0, 3, 1, 0>>,
            <<0, 0, 0, 1, 0>> >>)

\* A two-by-two room, a door at (2,0) and one cell behind it.
RoomWorld ==
    Grid(<< <<0, 2, 1, 0, 1>>,
            <<0, 3, 1, 1, 1>>,
            <<1, 1, 1, 1, 1>>,
            <<1, 1, 1, 1, 1>>,
            <<1, 1, 1, 1, 1>> >>)

\* The room without its door switch: the cell behind the door is cut off.
SealedWorld ==
    Grid(<< <<0, 2, 1, 0, 1>>,
            <<0, 0, 1, 1, 1>>,
            <<1, 1, 1, 1, 1>>,
            <<1, 1, 1, 1, 1>>,
            <<1, 1, 1, 1, 1>> >>)

\* No obstacle and no switch at all.
EmptyWorld ==
    Grid(<< <<0, 0, 0, 0, 0>>,
            <<0, 0, 0, 0, 0>>,
            <<0, 0, 0, 0, 0>>,
            <<0, 0, 0, 0, 0>>,
            <<0, 0, 0, 0, 0>> >>)

Configs ==
    << \* 1: Game.__init__
       [world |-> DefaultWorld, door |-> <<3, 2>>,
        agents |-> << <<0, 0>>, <<0, 2>>, <<0, 4>> >>,
        color |-> <<WHITE, WHITE, WHITE>>,
        target_position |-> << <<4, 0>>, <<4, 2>>, <<4, 4>> >>,
        target_color |-> <<"red", "green", "blue">>],
       \* 2: the default world with its first agent only
       [world |-> DefaultWorld, door |-> <<3, 2>>,
        agents |-> << <<0, 0>> >>,
        color |-> <<WHITE>>,
        target_position |-> << <<4, 0>> >>,
        target_color |-> <<"red">>],
       \* 3: two agents in the room, one target behind the door
       [world |-> RoomWorld, door |-> <<2, 0>>,
        agents |-> << <<0, 0>>, <<0, 1>> >>,
        color |-> <<WHITE, WHITE>>,
        target_position |-> << <<3, 0>>, <<0, 0>> >>,
        target_color |-> <<"red", "green">>],
       \* 4: the same with no door switch: no goal state is reachable
       [world |-> SealedWorld, door |-> <<2, 0>>,
        agents |-> << <<0, 0>>, <<0, 1>> >>,
        color |-> <<WHITE, WHITE>>,
        target_position |-> << <<3, 0>>, <<0, 0>> >>,
        target_color |-> <<"red", "green">>],
       \* 5: every agent on its target with its target colour
       [world |-> RoomWorld, door |-> <<2, 0>>,
        agents |-> << <<0, 1>>, <<0, 0>> >>,
        color |-> <<"red", "green">>,
        target_position |-> << <<0, 1>>, <<0, 0>> >>,
        target_color |-> <<"red", "green">>],
       \* 6: no obstacle, no switch, one agent at (0,0) with target (2,2)
       [world |-> EmptyWorld, door |-> <<3, 2>>,
        agents |-> << <<0, 0>> >>,
        color |-> <<WHITE>>,
        target_position |-> << <<2, 2>> >>,
        target_color |-> <<"red">>],
       \* 7: the room two key presses later, before game_logic has run: agent 0
       \*    on the colour tile and still white, agent 1 on the door switch
       \*    with the door still closed
       [world |-> RoomWorld, door |-> <<2, 0>>,
        agents |-> << <<1, 0>>, <<1, 1>> >>,
        color |-> <<WHITE, WHITE>>,
        target_position |-> << <<3, 0>>, <<0, 0>> >>,
        target_color |-> <<"red", "green">>],
       \* 8: the default world in mid-game: the door open, the agent coloured
       [world |-> [DefaultWorld EXCEPT ![2][3] = 0], door |-> <<3, 2>>,
        agents |-> << <<2, 3>> >>,
        color |-> <<"red">>,
        target_position |-> << <<4, 0>> >>,
        target_color |-> <<"red">>],
       \* 9: as 6, the agent given its target colour with set_color
       [world |-> EmptyWorld, door |-> <<3, 2>>,
        agents |-> << <<0, 0>> >>,
        color |-> <<"red">>,
        target_position |-> << <<2, 2>> >>,
        target_color |-> <<"red">>] >>

\* Game.door, Game.target_position, Game.target_color: fixed at construction.
door == Configs[cfg].door
target_position == Configs[cfg].target_position
target_color == Configs[cfg].target_color
NumAgents == Len(Configs[cfg].agents)
\* range(len(self.agents))
AgentIds == 0..(NumAgents - 1)

(***************************************************************************)
(* game_eval.py: Game.test_move.  Returns <<authorized, newx, newy>>.      *)
(***************************************************************************)
\* test_move without the test of the destination cell.
test_move_through_obstacles(s, dx, dy, w) ==
    IF s[1] + dx < 0 THEN <<FALSE, s[1], s[2]>>
    ELSE IF s[1] + dx >= TILES_HORIZONTAL THEN <<FALSE, s[1], s[2]>>
    ELSE IF s[2] + dy < 0 THEN <<FALSE, s[1], s[2]>>
    ELSE IF s[2] + dy >= TILES_VERTICAL THEN <<FALSE, s[1], s[2]>>
    ELSE <<TRUE, s[1] + dx, s[2] + dy>>

test_move(s, dx, dy, w) ==
    IF s[1] + dx < 0 THEN <<FALSE, s[1], s[2]>>
    ELSE IF s[1] + dx >= TILES_HORIZONTAL THEN <<FALSE, s[1], s[2]>>
    ELSE IF s[2] + dy < 0 THEN <<FALSE, s[1], s[2]>>
    ELSE IF s[2] + dy >= TILES_VERTICAL THEN <<FALSE, s[1], s[2]>>
    ELSE IF w[s[2] + dy][s[1] + dx] = 1 THEN <<FALSE, s[1], s[2]>>
    ELSE <<TRUE, s[1] + dx, s[2] + dy>>

(***************************************************************************)
(* solution.py: Solution.world_with_door.  A copy of self.world with the   *)
(* door cell set to 0 when door_open.                                      *)
(***************************************************************************)
\* world_with_door opening the door cell whatever door_open says.
world_with_door_always_open(door_open) ==
    [world EXCEPT ![door[2]][door[1]] = 0]

world_with_door(door_open) ==
    IF door_open
    THEN [world EXCEPT ![door[2]][door[1]] = 0]
    ELSE world

\* world_with_door without the copy of the rows (wcopy = self.world): the
\* assignment to wcopy[dy][dx] lands in self.world.
world_with_door_writes_live(door_open) ==
    IF door_open
    THEN [world EXCEPT ![door[2]][door[1]] = 0]
    ELSE world

\* self.world after world_with_door(door_open) has returned.  wcopy holds a
\* copy of every row (row[:], line 340), so the assignment to wcopy[dy][dx]
\* (line 345) leaves self.world as it was.
world_after_world_with_door(door_open) == world

(***************************************************************************)
(* solution.py: Solution.next_state.  positions and colors are sequences   *)
(* indexed from 1, agent_id is 0-based as in the code.  Returns the joint  *)
(* state <<positions, colors, door>> or None.                              *)
(***************************************************************************)
\* next_state taking the door flag from the cell stepped on instead of
\* carrying the old flag over.
next_state_door_from_cell(positions, colors, door_open, agent_id, dx, dy) ==
    LET tm == test_move(positions[agent_id + 1], dx, dy, world_with_door(door_open))
        newx == tm[2]
        newy == tm[3]
        new_positions == [positions EXCEPT ![agent_id + 1] = <<newx, newy>>]
        new_colors == IF world[newy][newx] = 2
                      THEN [colors EXCEPT ![agent_id + 1] = TRUE]
                      ELSE colors
        new_door == world[newy][newx] = 3
        new_state == <<new_positions, new_colors, new_door>>
    IN  IF ~tm[1] THEN None
        ELSE IF new_state = <<positions, colors, door_open>> THEN None
        ELSE new_state

\* next_state testing the move on the live grid with the door cell opened,
\* whatever the door flag of the state.
next_state_ignoring_door(positions, colors, door_open, agent_id, dx, dy) ==
    LET tm == test_move(positions[agent_id + 1], dx, dy, world_with_door(TRUE))
        newx == tm[2]
        newy == tm[3]
        new_positions == [positions EXCEPT ![agent_id + 1] = <<newx, newy>>]
        new_colors == IF world[newy][newx] = 2
                      THEN [colors EXCEPT ![agent_id + 1] = TRUE]
                      ELSE colors
        new_door == IF world[newy][newx] = 3 THEN TRUE ELSE door_open
        new_state == <<new_positions, new_colors, new_door>>
    IN  IF ~tm[1] THEN None
        ELSE IF new_state = <<positions, colors, door_open>> THEN None
        ELSE new_state

\* next_state giving every agent its colour when one steps on the colour
\* tile.
next_state_colors_everyone(positions, colors, door_open, agent_id, dx, dy) ==
    LET tm == test_move(positions[agent_id + 1], dx, dy, world_with_door(door_open))
        newx == tm[2]
        newy == tm[3]
        new_positions == [positions EXCEPT ![agent_id + 1] = <<newx, newy>>]
        new_colors == IF world[newy][newx] = 2
                      THEN [i \in 1..Len(colors) |-> TRUE]
                      ELSE colors
        new_door == IF world[newy][newx] = 3 THEN TRUE ELSE door_open
        new_state == <<new_positions, new_colors, new_door>>
    IN  IF ~tm[1] THEN None
        ELSE IF new_state = <<positions, colors, door_open>> THEN None
        ELSE new_state

\* next_state refusing a move onto a cell another agent stands on.
next_state_blocked_by_agents(positions, colors, door_open, agent_id, dx, dy) ==
    LET tm == test_move(positions[agent_id + 1], dx, dy, world_with_door(door_open))
        newx == tm[2]
        newy == tm[3]
        new_positions == [positions EXCEPT ![agent_id + 1] = <<newx, newy>>]
        new_colors == IF world[newy][newx] = 2
                      THEN [colors EXCEPT ![agent_id + 1] = TRUE]
                      ELSE colors
        new_door == IF world[newy][newx] = 3 THEN TRUE ELSE door_open
        new_state == <<new_positions, new_colors, new_door>>
    IN  IF ~tm[1] THEN None
        ELSE IF \E j \in 1..Len(positions) :
                   j # agent_id + 1 /\ positions[j] = <<newx, newy>>
        THEN None
        ELSE IF new_state = <<positions, colors, door_open>> THEN None
        ELSE new_state

next_state(positions, colors, door_open, agent_id, dx, dy) ==
    LET tm == test_move(positions[agent_id + 1], dx, dy, world_with_door(door_open))
        newx == tm[2]
        newy == tm[3]
        new_positions == [positions EXCEPT ![agent_id + 1] = <<newx, newy>>]
        new_colors == IF world[newy][newx] = 2
                      THEN [colors EXCEPT ![agent_id + 1] = TRUE]
                      ELSE colors
        new_door == IF world[newy][newx] = 3 THEN TRUE ELSE door_open
        new_state == <<new_positions, new_colors, new_door>>
    IN  IF ~tm[1] THEN None
        ELSE IF new_state = <<positions, colors, door_open>> THEN None
        ELSE new_state

(***************************************************************************)
(* solution.py: Solution.is_goal_state, has_correct_color, is_door_open    *)
(***************************************************************************)
is_goal_state(positions, colors) ==
    /\ \A i \in 1..Len(positions) : positions[i] = target_position[i]
    /\ \A i \in 1..Len(colors) : colors[i]

has_correct_color(agent_id) == color[agent_id + 1] = target_color[agent_id + 1]

is_door_open == world[door[2]][door[1]] = 0

\* tuple(self.has_correct_color(i) for i in range(n))
\* "return []" of a start state that is already a goal (lines 70, 125, 163)
\* and "return []" of an exhausted frontier (lines 111, 154, 200).
already_solved_return == << >>
no_path_return == << >>

RECURSIVE start_colors(_)
start_colors(n) ==
    IF n = 0 THEN << >> ELSE Append(start_colors(n - 1), has_correct_color(n - 1))

\* The snapshot every strategy starts from (bfs_plan lines 63-66).
start_state == << agents, start_colors(NumAgents), is_door_open >>

(***************************************************************************)
(* solution.py: Solution.manhattan, find_color_tile, heuristic             *)
(***************************************************************************)
Abs(n) == IF n < 0 THEN -n ELSE n

manhattan(a, b) == Abs(a[1] - b[1]) + Abs(a[2] - b[2])

\* The first cell of value 2 in row-major order, or None (the loop falls
\* off its end and the function returns nothing).
find_color_tile ==
    LET tiles == {c \in (0..(TILES_HORIZONTAL - 1)) \X (0..(TILES_VERTICAL - 1)) :
                    world[c[2]][c[1]] = 2}
    IN  IF tiles = {} THEN None
        ELSE CHOOSE c \in tiles :
                \A o \in tiles : c[2] < o[2] \/ (c[2] = o[2] /\ c[1] <= o[1])

RECURSIVE SumTo(_, _)
SumTo(f, n) == IF n = 0 THEN 0 ELSE f[n] + SumTo(f, n - 1)

\* heuristic(state) raises TypeError when an agent without its colour meets
\* color_tile = None: manhattan subscripts None (lines 269-270, 285).
heuristic_raises(state) ==
    find_color_tile = None /\ \E i \in 1..Len(state[2]) : ~state[2][i]

\* heuristic sending every agent through the colour tile, coloured or not.
heuristic_always_via_tile(state) ==
    LET positions == state[1]
        colors == state[2]
        color_tile == find_color_tile
        term(i) == manhattan(positions[i], color_tile)
                   + manhattan(color_tile, target_position[i])
    IN  SumTo([i \in 1..Len(colors) |-> term(i)], Len(colors))

heuristic(state) ==
    LET positions == state[1]
        colors == state[2]
        color_tile == find_color_tile
        term(i) == IF colors[i]
                   THEN manhattan(positions[i], target_position[i])
                   ELSE manhattan(positions[i], color_tile)
                        + manhattan(color_tile, target_position[i])
    IN  SumTo([i \in 1..Len(colors) |-> term(i)], Len(colors))

(***************************************************************************)
(* solution.py: Solution.reconstruct_path.  parent maps a state to None    *)
(* or to <<prev_state, agent_id, dx, dy>>.                                 *)
(***************************************************************************)
\* reconstruct_path without its path.reverse().
RECURSIVE reconstruct_path_unreversed(_, _)
reconstruct_path_unreversed(parent, goal_state) ==
    IF parent[goal_state] = None THEN << >>
    ELSE << <<parent[goal_state][2], parent[goal_state][3], parent[goal_state][4]>> >>
         \o reconstruct_path_unreversed(parent, parent[goal_state][1])

RECURSIVE reconstruct_path(_, _)
reconstruct_path(parent, goal_state) ==
    IF parent[goal_state] = None THEN << >>
    ELSE Append(reconstruct_path(parent, parent[goal_state][1]),
                <<parent[goal_state][2], parent[goal_state][3], parent[goal_state][4]>>)

(***************************************************************************)
(* Python's order on the tuples pushed on the A* heap: (f, g, state) with  *)
(* state = (positions, colors, door), compared lexicographically, and      *)
(* False < True.                                                           *)
(***************************************************************************)
LessPos(a, b) == a[1] < b[1] \/ (a[1] = b[1] /\ a[2] < b[2])

LessBool(a, b) == ~a /\ b

LessPositions(p, q) ==
    \E i \in 1..Len(p) : LessPos(p[i], q[i]) /\ \A j \in 1..(i - 1) : p[j] = q[j]

LessColors(c, d) ==
    \E i \in 1..Len(c) : LessBool(c[i], d[i]) /\ \A j \in 1..(i - 1) : c[j] = d[j]

LessState(s, t) ==
    \/ LessPositions(s[1], t[1])
    \/ s[1] = t[1] /\ LessColors(s[2], t[2])
    \/ s[1] = t[1] /\ s[2] = t[2] /\ LessBool(s[3], t[3])

LessEntry(e, o) ==
    \/ e[1] < o[1]
    \/ e[1] = o[1] /\ e[2] < o[2]
    \/ e[1] = o[1] /\ e[2] = o[2] /\ LessState(e[3], o[3])

\* heappop returning the greatest entry.
heappop_greatest(open_list) ==
    CHOOSE e \in open_list : \A o \in open_list \ {e} : LessEntry(o, e)

\* heappop breaking ties of f by the order on states, without looking at g.
heappop_by_f_then_state(open_list) ==
    CHOOSE e \in open_list : \A o \in open_list \ {e} :
        \/ e[1] < o[1]
        \/ e[1] = o[1] /\ LessState(e[3], o[3])
        \/ e[1] = o[1] /\ e[3] = o[3] /\ e[2] < o[2]

\* heapq.heappop: the least entry of the heap.
heappop(open_list) ==
    CHOOSE e \in open_list : \A o \in open_list \ {e} : LessEntry(e, o)

(***************************************************************************)
(* The three strategies, one step at a time.  A search is the record of    *)
(* the strategy's local variables; pc is "loop" at the head of the while   *)
(* loop, "inner" inside the two for loops (idx counts the (agent_id,       *)
(* delta) pairs tried so far) and "done" once the function has returned    *)
(* or raised.  ret names the return statement that ended it.               *)
(***************************************************************************)
Algorithms == {"BFS", "DFS", "A-star"}

SearchBlank(alg) ==
    [alg |-> alg, pc |-> "loop", start |-> start_state,
     queue |-> << >>, stack |-> << >>, open_list |-> {},
     visited |-> {}, parent |-> << >>, g_score |-> << >>,
     cur |-> None, g |-> 0, idx |-> 0,
     result |-> << >>, ret |-> "running"]

\* Lines 63-76 (BFS), 118-129 (DFS), 157-171 (A*).
search_start(alg) ==
    LET s0 == start_state
        S == SearchBlank(alg)
    IN  IF is_goal_state(s0[1], s0[2])
        THEN [S EXCEPT !.pc = "done", !.ret = "already_goal",
                       !.result = already_solved_return]
        ELSE IF alg = "BFS"
        THEN [S EXCEPT !.queue = <<s0>>, !.visited = {s0}, !.parent = (s0 :> None)]
        ELSE IF alg = "DFS"
        THEN [S EXCEPT !.stack = <<s0>>, !.visited = {s0}, !.parent = (s0 :> None)]
        ELSE [S EXCEPT !.open_list = {<<0, 0, s0>>}, !.parent = (s0 :> None),
                       !.g_score = (s0 :> 0)]

\* The end of one pass of the inner for loop.
advance(S) ==
    IF S.idx + 1 = 4 * NumAgents
    THEN [S EXCEPT !.pc = "loop", !.idx = 0]
    ELSE [S EXCEPT !.idx = S.idx + 1]

\* The (agent_id, dx, dy) the for loops reach at count idx.
move_at(idx) == <<idx \div 4, Deltas[(idx % 4) + 1][1], Deltas[(idx % 4) + 1][2]>>

\* BFS and DFS, lines 97-108 and 143-151: a successor not seen before.
discover(S, ns, m) ==
    LET S1 == [S EXCEPT !.visited = @ \cup {ns},
                        !.parent = (ns :> <<S.cur, m[1], m[2], m[3]>>) @@ @]
    IN  IF is_goal_state(ns[1], ns[2])
        THEN [S1 EXCEPT !.pc = "done", !.ret = "reconstruct",
                        !.result = reconstruct_path(S1.parent, ns)]
        ELSE IF S.alg = "BFS"
        THEN advance([S1 EXCEPT !.queue = Append(@, ns)])
        ELSE advance([S1 EXCEPT !.stack = Append(@, ns)])

\* A*, lines 190-198: a successor found for the first time or at a lower g.
relax(S, ns, m) ==
    LET new_g == S.g + 1
        h == heuristic(ns)
        S1 == [S EXCEPT !.g_score = (ns :> new_g) @@ @,
                        !.parent = (ns :> <<S.cur, m[1], m[2], m[3]>>) @@ @]
    IN  IF heuristic_raises(ns)
        THEN [S1 EXCEPT !.pc = "done", !.ret = "TypeError"]
        ELSE advance([S1 EXCEPT !.open_list = @ \cup {<<new_g + h, new_g, ns>>}])

\* bfs_step popping the newest entry of the queue instead of the oldest.
bfs_step_pop_right(S) ==
    IF S.pc = "loop"
    THEN IF S.queue = << >>
         THEN [S EXCEPT !.pc = "done", !.ret = "no_path", !.result = no_path_return]
         ELSE [S EXCEPT !.cur = S.queue[Len(S.queue)],
                        !.queue = SubSeq(@, 1, Len(@) - 1), !.pc = "inner"]
    ELSE LET m == move_at(S.idx)
             ns == next_state(S.cur[1], S.cur[2], S.cur[3], m[1], m[2], m[3])
         IN  IF ns = None THEN advance(S)
             ELSE IF ns \notin S.visited THEN discover(S, ns, m)
             ELSE advance(S)

bfs_step(S) ==
    IF S.pc = "loop"
    THEN IF S.queue = << >>
         THEN [S EXCEPT !.pc = "done", !.ret = "no_path", !.result = no_path_return]
         ELSE [S EXCEPT !.cur = Head(S.queue), !.queue = Tail(@), !.pc = "inner"]
    ELSE LET m == move_at(S.idx)
             ns == next_state(S.cur[1], S.cur[2], S.cur[3], m[1], m[2], m[3])
         IN  IF ns = None THEN advance(S)
             ELSE IF ns \notin S.visited THEN discover(S, ns, m)
             ELSE advance(S)

dfs_step(S) ==
    IF S.pc = "loop"
    THEN IF S.stack = << >>
         THEN [S EXCEPT !.pc = "done", !.ret = "no_path", !.result = no_path_return]
         ELSE [S EXCEPT !.cur = S.stack[Len(S.stack)],
                        !.stack = SubSeq(@, 1, Len(@) - 1), !.pc = "inner"]
    ELSE LET m == move_at(S.idx)
             ns == next_state(S.cur[1], S.cur[2], S.cur[3], m[1], m[2], m[3])
         IN  IF ns = None THEN advance(S)
             ELSE IF ns \notin S.visited THEN discover(S, ns, m)
             ELSE advance(S)

\* astar_step relaxing a successor also when its new g equals the g recorded.
astar_step_relax_on_equal(S) ==
    IF S.pc = "loop"
    THEN IF S.open_list = {}
         THEN [S EXCEPT !.pc = "done", !.ret = "no_path", !.result = no_path_return]
         ELSE LET e == heappop(S.open_list)
                  S1 == [S EXCEPT !.open_list = @ \ {e}, !.g = e[2], !.cur = e[3]]
              IN  IF is_goal_state(e[3][1], e[3][2])
                  THEN [S1 EXCEPT !.pc = "done", !.ret = "reconstruct",
                                  !.result = reconstruct_path(S.parent, e[3])]
                  ELSE [S1 EXCEPT !.pc = "inner"]
    ELSE LET m == move_at(S.idx)
             ns == next_state(S.cur[1], S.cur[2], S.cur[3], m[1], m[2], m[3])
         IN  IF ns = None THEN advance(S)
             ELSE IF ns \notin DOMAIN S.g_score \/ S.g + 1 <= S.g_score[ns]
             THEN relax(S, ns, m)
             ELSE advance(S)

astar_step(S) ==
    IF S.pc = "loop"
    THEN IF S.open_list = {}
         THEN [S EXCEPT !.pc = "done", !.ret = "no_path", !.result = no_path_return]
         ELSE LET e == heappop(S.open_list)
                  S1 == [S EXCEPT !.open_list = @ \ {e}, !.g = e[2], !.cur = e[3]]
              IN  IF is_goal_state(e[3][1], e[3][2])
                  THEN [S1 EXCEPT !.pc = "done", !.ret = "reconstruct",
                                  !.result = reconstruct_path(S.parent, e[3])]
                  ELSE [S1 EXCEPT !.pc = "inner"]
    ELSE LET m == move_at(S.idx)
             ns == next_state(S.cur[1], S.cur[2], S.cur[3], m[1], m[2], m[3])
         IN  IF ns = None THEN advance(S)
             ELSE IF ns \notin DOMAIN S.g_score \/ S.g + 1 < S.g_score[ns]
             THEN relax(S, ns, m)
             ELSE advance(S)

search_step(S) ==
    IF S.alg = "BFS" THEN bfs_step(S)
    ELSE IF S.alg = "DFS" THEN dfs_step(S)
    ELSE astar_step(S)

\* n steps of a search, or fewer when it ends before (halving keeps the
\* evaluation shallow).
RECURSIVE iterate(_, _)
iterate(S, n) ==
    IF S.pc = "done" \/ n = 0 THEN S
    ELSE IF n = 1 THEN search_step(S)
    ELSE iterate(iterate(S, n \div 2), n - (n \div 2))

\* bfs_plan, dfs_plan, astar_plan run to their end: steps until pc = "done".
RECURSIVE run_from(_, _)
run_from(S, n) == IF S.pc = "done" THEN S ELSE run_from(iterate(S, n), 2 * n)

run_search(S) == run_from(S, 1)

bfs_plan == run_search(search_start("BFS"))
dfs_plan == run_search(search_start("DFS"))
astar_plan == run_search(search_start("A-star"))

(***************************************************************************)
(* Walking the planner's state space: any agent, any of the four deltas.   *)
(***************************************************************************)
WalkConfigs == {1, 2, 3, 4, 5, 6, 7, 8}

InitLive(c) ==
    /\ cfg = c
    /\ world = Configs[c].world
    /\ agents = Configs[c].agents
    /\ color = Configs[c].color
    /\ auto = FALSE
    /\ active_agent = 0
    /\ loop = TRUE
    /\ plan = << >>
    /\ initialized = FALSE
    /\ keys = 0
    /\ calls = 0
    /\ presses = 0
    /\ last_test = None

liveVars == <<cfg, world, agents, color, auto, active_agent, loop, plan,
              initialized, keys, calls, presses, last_test>>

InitWalk ==
    /\ \E c \in WalkConfigs : InitLive(c)
    /\ algorithm = "none"
    /\ pc = "walk"
    /\ js = start_state
    /\ srch = None

WalkMove(agent_id, d) ==
    /\ pc = "walk"
    /\ next_state(js[1], js[2], js[3], agent_id, Deltas[d][1], Deltas[d][2]) # None
    /\ js' = next_state(js[1], js[2], js[3], agent_id, Deltas[d][1], Deltas[d][2])
    /\ UNCHANGED <<liveVars, algorithm, pc, srch>>

NextWalk == \E agent_id \in AgentIds, d \in 1..4 : WalkMove(agent_id, d)

SpecWalk == InitWalk /\ [][NextWalk]_vars

(***************************************************************************)
(* One strategy running from the snapshot of a freshly constructed game.   *)
(***************************************************************************)
SearchConfigs == {2, 3, 4, 5, 6, 7, 8, 9}

InitSearch ==
    /\ \E c \in SearchConfigs : InitLive(c)
    /\ algorithm \in Algorithms
    /\ pc = "call"
    /\ js = None
    /\ srch = None

\* The strategy is entered: snapshot, goal test, containers.
SearchCall ==
    /\ pc = "call"
    /\ srch' = search_start(algorithm)
    /\ pc' = "search"
    /\ calls' = calls + 1
    /\ UNCHANGED <<cfg, world, agents, color, auto, active_agent, loop, plan,
                   initialized, algorithm, js, keys, presses, last_test>>

\* One pop of the frontier, or one (agent_id, delta) pair of the for loops.
\* A pair of the for loops calls next_state, which calls world_with_door
\* with the door flag of the state popped.
SearchStep ==
    /\ pc = "search"
    /\ srch.pc # "done"
    /\ srch' = search_step(srch)
    /\ world' = IF srch.pc = "inner"
                THEN world_after_world_with_door(srch.cur[3])
                ELSE world
    /\ UNCHANGED <<cfg, agents, color, auto, active_agent, loop, plan,
                   initialized, keys, calls, presses, last_test, algorithm,
                   pc, js>>

\* The strategy returns and initialize_controller stores the plan.
SearchReturn ==
    /\ pc = "search"
    /\ srch.pc = "done"
    /\ srch.ret # "TypeError"
    /\ plan' = srch.result
    /\ pc' = "returned"
    /\ UNCHANGED <<cfg, world, agents, color, auto, active_agent, loop,
                   initialized, algorithm, js, srch, keys, calls,
                   presses, last_test>>

\* The exception of heuristic leaves astar_plan and initialize_controller.
SearchRaise ==
    /\ pc = "search"
    /\ srch.pc = "done"
    /\ srch.ret = "TypeError"
    /\ pc' = "raised"
    /\ UNCHANGED <<liveVars, algorithm, js, srch>>

NextSearch == SearchCall \/ SearchStep \/ SearchReturn \/ SearchRaise

SpecSearch == InitSearch /\ [][NextSearch]_vars

(***************************************************************************)
(* game_eval.py: Game.move_player, game_logic, game_complete               *)
(***************************************************************************)
\* move_player testing the move on a grid without obstacles.
move_player_through_obstacles(agent_id, dx, dy) ==
    LET tm == test_move(agents[agent_id + 1], dx, dy, EmptyWorld)
    IN  IF tm[1]
        THEN [agents EXCEPT ![agent_id + 1] = <<tm[2], tm[3]>>]
        ELSE agents

\* move_player(self.agents[agent_id], dx, dy): the positions afterwards.
move_player(agent_id, dx, dy) ==
    LET tm == test_move(agents[agent_id + 1], dx, dy, world)
    IN  IF tm[1]
        THEN [agents EXCEPT ![agent_id + 1] = <<tm[2], tm[3]>>]
        ELSE agents

\* game_logic never opening the door.
RECURSIVE game_logic_from_without_door(_, _, _)
game_logic_from_without_door(i, w, col) ==
    IF i > NumAgents THEN <<w, col>>
    ELSE IF w[agents[i][2]][agents[i][1]] = 2
    THEN game_logic_from_without_door(i + 1, w, [col EXCEPT ![i] = target_color[i]])
    ELSE game_logic_from_without_door(i + 1, w, col)

\* game_logic's loop from agent i on (1-based), on the grid w and colours col
\* the earlier agents left.  Returns <<world, color>>.
RECURSIVE game_logic_from(_, _, _)
game_logic_from(i, w, col) ==
    IF i > NumAgents THEN <<w, col>>
    ELSE IF w[agents[i][2]][agents[i][1]] = 3
    THEN game_logic_from(i + 1, [w EXCEPT ![door[2]][door[1]] = 0], col)
    ELSE IF w[agents[i][2]][agents[i][1]] = 2
    THEN game_logic_from(i + 1, w, [col EXCEPT ![i] = target_color[i]])
    ELSE game_logic_from(i + 1, w, col)

game_logic == game_logic_from(1, world, color)

\* game_complete() on the positions pos and colours col.
game_complete(pos, col) ==
    /\ \A i \in 1..NumAgents : pos[i] = target_position[i]
    /\ \A i \in 1..NumAgents : col[i] = target_color[i]

(***************************************************************************)
(* The game: Game.grid_loop with Solution's controller, one step per part  *)
(* of the loop body and one per keyboard event.  pc is "controller" at the *)
(* head of grid_loop, "logic" before game_logic, "events" in the event     *)
(* loop, "exit" once main has left its loop, "raised" after an exception.  *)
(***************************************************************************)
LiveConfigs == {2, 3, 5, 6}

\* Arrow-key events handled in one run.
MaxKeys == 2

\* K_a events handled in one run.
MaxPresses == 3

\* algorithm: 'BFS', 'DFS', 'A-star', or the constructor's default None.
Init ==
    /\ \E c \in LiveConfigs : InitLive(c)
    /\ algorithm \in Algorithms \cup {"none"}
    /\ pc = "controller"
    /\ js = None
    /\ srch = None

\* grid_loop lines 166-167 with Solution.controller.
Controller ==
    /\ pc = "controller"
    /\ IF auto /\ plan # << >>
       THEN /\ plan' = Tail(plan)
            /\ active_agent' = Head(plan)[1]
            /\ agents' = move_player(Head(plan)[1], Head(plan)[2], Head(plan)[3])
            /\ last_test' = test_move(agents[Head(plan)[1] + 1], Head(plan)[2],
                                      Head(plan)[3], world)
       ELSE UNCHANGED <<plan, active_agent, agents, last_test>>
    /\ pc' = "logic"
    /\ UNCHANGED <<cfg, world, color, auto, loop, initialized, algorithm,
                   js, srch, keys, calls, presses>>

\* grid_loop lines 169-173: game_logic, then game_complete.
Logic ==
    /\ pc = "logic"
    /\ world' = game_logic[1]
    /\ color' = game_logic[2]
    /\ loop' = IF game_complete(agents, game_logic[2]) THEN FALSE ELSE loop
    /\ pc' = "events"
    /\ UNCHANGED <<cfg, agents, auto, active_agent, plan, initialized,
                   algorithm, js, srch, keys, calls, presses, last_test>>

\* initialize_controller planning on every call, initialized or not.
initialize_controller_plans_always == TRUE

\* The guard of Solution.initialize_controller (line 27): it plans while
\* initialized is still false.
initialize_controller_plans == ~initialized

\* What is left of a strategy's variables once it has returned or raised:
\* the snapshot it started from and what it returned.
returned_search(S) ==
    [SearchBlank(S.alg) EXCEPT !.pc = "done", !.start = S.start,
                               !.result = S.result, !.ret = S.ret]

\* K_a, lines 199-205: auto is toggled, and initialize_controller is called
\* when it has become true.  A TypeError of the strategy (heuristic) leaves
\* plan unassigned and ends the program.
KeyA ==
    /\ pc = "events"
    /\ presses < MaxPresses
    /\ presses' = presses + 1
    /\ auto' = ~auto
    /\ IF ~auto /\ initialize_controller_plans
       THEN /\ initialized' = TRUE
            /\ IF algorithm \in Algorithms
               THEN LET S == run_search(search_start(algorithm))
                    IN  /\ calls' = calls + 1
                        /\ srch' = returned_search(S)
                        /\ IF S.ret = "TypeError"
                           THEN pc' = "raised" /\ UNCHANGED plan
                           ELSE plan' = S.result /\ UNCHANGED pc
               ELSE UNCHANGED <<plan, pc, calls, srch>>
       ELSE UNCHANGED <<initialized, plan, pc, calls, srch>>
    /\ UNCHANGED <<cfg, world, agents, color, active_agent, loop, algorithm,
                   js, keys, last_test>>

\* K_UP, K_DOWN, K_LEFT, K_RIGHT, lines 207-214.
KeyDeltas == << <<0, -1>>, <<0, 1>>, <<-1, 0>>, <<1, 0>> >>

KeyArrow(k) ==
    /\ pc = "events"
    /\ keys < MaxKeys
    /\ keys' = keys + 1
    /\ agents' = move_player(active_agent, KeyDeltas[k][1], KeyDeltas[k][2])
    /\ last_test' = test_move(agents[active_agent + 1], KeyDeltas[k][1],
                              KeyDeltas[k][2], world)
    /\ UNCHANGED <<cfg, world, color, auto, active_agent, loop, plan,
                   initialized, algorithm, pc, js, srch, calls, presses>>

\* K_TAB, lines 215-216.
KeyTab ==
    /\ pc = "events"
    /\ active_agent' = (active_agent + 1) % NumAgents
    /\ UNCHANGED <<cfg, world, agents, color, auto, loop, plan, initialized,
                   algorithm, pc, js, srch, keys, calls, presses, last_test>>

\* pg.QUIT or K_ESCAPE, lines 194-198.
KeyQuit ==
    /\ pc = "events"
    /\ loop
    /\ loop' = FALSE
    /\ UNCHANGED <<cfg, world, agents, color, auto, active_agent, plan,
                   initialized, algorithm, pc, js, srch, keys, calls,
                   presses, last_test>>

\* The event queue is drained: lines 220-221, then main's loop test.
EndEvents ==
    /\ pc = "events"
    /\ pc' = IF loop THEN "controller" ELSE "exit"
    /\ UNCHANGED <<liveVars, algorithm, js, srch>>

Next ==
    \/ Controller
    \/ Logic
    \/ KeyA
    \/ \E k \in 1..4 : KeyArrow(k)
    \/ KeyTab
    \/ KeyQuit
    \/ EndEvents

Spec == Init /\ [][Next]_vars

(***************************************************************************)
(* Claims about the strategies (checked under SpecSearch)                  *)
(***************************************************************************)
\* The moves of p replayed from s through next_state: the state reached, or
\* None as soon as a move is rejected.
RECURSIVE Replay(_, _)
Replay(s, p) ==
    IF s = None THEN None
    ELSE IF p = << >> THEN s
    ELSE Replay(next_state(s[1], s[2], s[3], Head(p)[1], Head(p)[2], Head(p)[3]),
                Tail(p))

\* Every joint state one legal move away from a state of F.
Successors(F) ==
    {ns \in {next_state(s[1], s[2], s[3], i, Deltas[d][1], Deltas[d][2]) :
                s \in F, i \in AgentIds, d \in 1..4} : ns # None}

\* The least number of moves from a state of F to a goal state, counting
\* from k, by exhaustive enumeration of the states k, k+1, ... moves away;
\* -1 when no goal state is reachable.
RECURSIVE MinMovesFrom(_, _, _)
MinMovesFrom(F, seen, k) ==
    IF \E s \in F : is_goal_state(s[1], s[2]) THEN k
    ELSE IF F = {} THEN -1
    ELSE MinMovesFrom(Successors(F) \ seen, seen \cup Successors(F), k + 1)

MinMoves(s) == MinMovesFrom({s}, {s}, 0)

\* C1: every non-empty plan a strategy returns, replayed from the snapshot
\* it started from, meets no rejected move and ends in a goal state.
C1_Validity ==
    (pc = "returned" /\ plan # << >>) =>
        /\ Replay(srch.start, plan) # None
        /\ is_goal_state(Replay(srch.start, plan)[1], Replay(srch.start, plan)[2])

C1_Witness ==
    /\ pc = "returned"
    /\ algorithm = "DFS"
    /\ NumAgents = 2
    /\ Len(plan) > 6
    /\ is_goal_state(Replay(srch.start, plan)[1], Replay(srch.start, plan)[2])

\* C2: when a goal state is reachable from the snapshot, the plan bfs_plan
\* returns has the least number of moves of any legal sequence to a goal.
C2_BfsOptimal ==
    (pc = "returned" /\ algorithm = "BFS" /\ MinMoves(srch.start) # -1) =>
        Len(plan) = MinMoves(srch.start)

C2_Witness ==
    /\ pc = "returned"
    /\ algorithm = "BFS"
    /\ Len(plan) = 10
    /\ MinMoves(srch.start) = 10

\* C3: when a goal state is reachable, the plan astar_plan returns has as
\* many moves as the plan bfs_plan returns from the same snapshot.
C3_AstarAsShortAsBfs ==
    (pc \in {"returned", "raised"} /\ algorithm = "A-star"
        /\ MinMoves(srch.start) # -1) =>
        /\ pc = "returned"
        /\ Len(plan) = Len(bfs_plan.result)

C3_Witness ==
    /\ pc = "returned"
    /\ algorithm = "A-star"
    /\ NumAgents = 2
    /\ Len(plan) = 6
    /\ Len(bfs_plan.result) = 6
    /\ plan # bfs_plan.result

(***************************************************************************)
(* Claims about the transition function (checked under SpecWalk)           *)
(***************************************************************************)
\* C4: no transition of next_state turns a colour flag or the door flag
\* from true to false.
C4_Monotone ==
    [][/\ \A i \in 1..Len(js[2]) : js[2][i] => js'[2][i]
       /\ js[3] => js'[3]]_vars

\* Both kinds of flag are true after the agent that set them has moved on.
C4_Witness ==
    /\ pc = "walk"
    /\ js[3]
    /\ js[2][1]
    /\ world[js[1][1][2]][js[1][1][1]] = 0
    /\ \A i \in 1..NumAgents : world[js[1][i][2]][js[1][i][1]] # 3

\* C5: every agent of a reachable joint state stands inside the grid and
\* not on an obstacle, the door cell being an obstacle exactly when the
\* state's own door flag is false.
C5_PositionInvariant ==
    pc = "walk" =>
        \A i \in 1..NumAgents :
            /\ js[1][i][1] \in 0..(TILES_HORIZONTAL - 1)
            /\ js[1][i][2] \in 0..(TILES_VERTICAL - 1)
            /\ IF js[1][i] = door
               THEN js[3]
               ELSE world[js[1][i][2]][js[1][i][1]] # 1

\* An agent stands on the door cell, which the live grid still closes.
C5_Witness ==
    /\ pc = "walk"
    /\ world[door[2]][door[1]] = 1
    /\ js[3]
    /\ \E i \in 1..NumAgents : js[1][i] = door

\* C6 (as the specification states it): the value returned when no goal
\* state is reachable differs from the value returned when the start state
\* is already a goal.
C6_Distinguishable ==
    /\ (pc = "returned" /\ srch.ret = "no_path") => plan # already_solved_return
    /\ (pc = "returned" /\ srch.ret = "already_goal") => plan # no_path_return

\* C7 (as the specification states it): with no cell of value 2 in the grid
\* the planner is never constructed, so no strategy is ever entered.
C7_FailFast == find_color_tile = None => calls = 0

(***************************************************************************)
(* The true cost to go of a joint state.  Agents never block one another   *)
(* (next_state tests the grid only), so the least number of moves to a     *)
(* goal state is put together from walks of single agents on the grid:     *)
(* each agent walks to its target, over a cell of value 2 first when its   *)
(* colour flag is false; and while the door flag is false one agent walks  *)
(* onto a cell of value 3 on the closed grid before anything else needs    *)
(* the door.  CostIsLeast states that the number so computed is the least  *)
(* number of moves of next_state, and is part of what is checked.          *)
(***************************************************************************)
CostConfigs == {1, 2, 3}

\* Larger than the number of moves of any walk counted below.
Unreachable == 1000

Cells == (0..(TILES_HORIZONTAL - 1)) \X (0..(TILES_VERTICAL - 1))

\* The grid next_state tests moves on in configuration c (world_with_door).
GridOf(c, door_open) ==
    IF door_open
    THEN [Configs[c].world EXCEPT ![Configs[c].door[2]][Configs[c].door[1]] = 0]
    ELSE Configs[c].world

\* The cells one move (test_move on w) away from a cell of F.
Steps(F, w) ==
    {<<tm[2], tm[3]>> :
        tm \in {t \in {test_move(p, Deltas[d][1], Deltas[d][2], w) :
                          p \in F, d \in 1..4} : t[1]}}

\* The least k' >= k such that q is k' - k moves away from a cell of F.
RECURSIVE WalkFrom(_, _, _, _, _)
WalkFrom(F, seen, q, w, k) ==
    IF q \in F THEN k
    ELSE IF F = {} THEN Unreachable
    ELSE WalkFrom(Steps(F, w) \ seen, seen \cup Steps(F, w), q, w, k + 1)

\* WalkTable[c][door_open][p][q] = <<reach, enter>>: the least number of
\* moves of a walk from p that ends on q, and of one that ends with a move
\* onto q (so at least one move, also when p = q).
WalkTable ==
    LET row(c, o, p) ==
            [q \in Cells |->
                <<WalkFrom({p}, {p}, q, GridOf(c, o), 0),
                  WalkFrom(Steps({p}, GridOf(c, o)), Steps({p}, GridOf(c, o)),
                           q, GridOf(c, o), 1)>>]
        tab == [c \in CostConfigs |->
                   [o \in BOOLEAN |-> [p \in Cells |-> row(c, o, p)]]]
    IN  IF tab = tab THEN tab ELSE tab

Reach(door_open, p, q) == WalkTable[cfg][door_open][p][q][1]
Enter(door_open, p, q) == WalkTable[cfg][door_open][p][q][2]

CellsOf(v) == {c \in Cells : world[c[2]][c[1]] = v}

Least(S) == IF S = {} THEN Unreachable ELSE CHOOSE n \in S : \A m \in S : n <= m

\* Agent i (1-based) from p to its target once the door flag is true.
AgentCost(i, p, colored) ==
    IF colored THEN Reach(TRUE, p, target_position[i])
    ELSE Least({Enter(TRUE, p, t) + Reach(TRUE, t, target_position[i]) :
                    t \in CellsOf(2)})

\* Agent i from p to its target while the door flag is false: it walks onto
\* a cell of value 3 on the closed grid, before or after it gets its colour.
AgentCostOpening(i, p, colored) ==
    IF colored
    THEN Least({Enter(FALSE, p, sw) + Reach(TRUE, sw, target_position[i]) :
                    sw \in CellsOf(3)})
    ELSE Least({Enter(FALSE, p, t) + Enter(FALSE, t, sw)
                    + Reach(TRUE, sw, target_position[i]) :
                    t \in CellsOf(2), sw \in CellsOf(3)}
               \cup
               {Enter(FALSE, p, sw) + Enter(TRUE, sw, t)
                    + Reach(TRUE, t, target_position[i]) :
                    t \in CellsOf(2), sw \in CellsOf(3)})

Cost(s) ==
    LET each == [i \in 1..NumAgents |-> AgentCost(i, s[1][i], s[2][i])]
        all == SumTo(each, NumAgents)
    IN  IF s[3] THEN all
        ELSE Least({all - each[i] + AgentCostOpening(i, s[1][i], s[2][i]) :
                        i \in 1..NumAgents})

\* Cost(s) is the least number of moves from s to a goal state: it is 0 in
\* a goal state, and elsewhere one more than the least Cost of a successor.
\* (Stepping to a cheapest successor then reaches a goal state in Cost(s)
\* moves, and no sequence of moves to a goal state can be shorter, Cost
\* falling by at most one per move.)
CostIsLeast(s) ==
    /\ Cost(s) \in 0..(Unreachable - 1)
    /\ is_goal_state(s[1], s[2]) => Cost(s) = 0
    /\ ~is_goal_state(s[1], s[2]) =>
           Cost(s) = 1 + Least({Cost(ns) : ns \in Successors({s})})

\* C8: in every joint state reachable from the start configuration the
\* heuristic does not exceed the least number of moves to a goal state, and
\* it is 0 in every goal state, reachable or not, whatever its door flag.
C8_Admissible ==
    (pc = "walk" /\ cfg \in CostConfigs) =>
        /\ CostIsLeast(js)
        /\ heuristic(js) <= Cost(js)
        /\ is_goal_state(js[1], js[2]) => heuristic(js) = 0
        /\ \A d \in BOOLEAN :
               heuristic(<<target_position, [i \in 1..NumAgents |-> TRUE], d>>) = 0

\* The default game, an agent coloured and one not, the door still closed:
\* the heuristic is positive and strictly below the true cost.
C8_Witness ==
    /\ pc = "walk"
    /\ cfg = 1
    /\ ~js[3]
    /\ js[2][1] /\ ~js[2][2]
    /\ CostIsLeast(js)
    /\ 0 < heuristic(js)
    /\ heuristic(js) < Cost(js)

(***************************************************************************)
(* Claims about the running game (checked under Spec)                      *)
(***************************************************************************)
\* Position p is inside the grid and the cell of grid w there is no obstacle.
OnFreeCell(p, w) ==
    /\ p[1] \in 0..(TILES_HORIZONTAL - 1)
    /\ p[2] \in 0..(TILES_VERTICAL - 1)
    /\ w[p[2]][p[1]] # 1

\* C9: whatever key presses and plan moves are interleaved, every live agent
\* is always inside the grid and off the obstacles of the live grid; a step
\* that calls move_player (controller popping a plan move, or an arrow key)
\* leaves every grid cell as it was, and either leaves every agent where it
\* was or moves one agent by one cell onto an in-bounds cell whose live grid
\* value is not 1.
C9_FailClosed ==
    [][/\ \A i \in 1..NumAgents :
              OnFreeCell(agents[i], world) /\ OnFreeCell(agents'[i], world')
       /\ (pc = "controller" \/ keys' # keys) => world' = world
       /\ agents' # agents =>
              /\ pc = "controller" \/ keys' # keys
              /\ \E i \in 1..NumAgents :
                    /\ \A j \in 1..NumAgents : j # i => agents'[j] = agents[j]
                    /\ manhattan(agents'[i], agents[i]) = 1
                    /\ OnFreeCell(agents'[i], world)]_vars

\* An arrow key has been handled, and the plan move controller has just
\* popped was refused: the agent stayed in place, on a free cell.
C9_Witness ==
    /\ pc = "logic"
    /\ auto
    /\ plan # << >>
    /\ keys > 0
    /\ last_test # None
    /\ ~last_test[1]
    /\ agents[active_agent + 1] = <<last_test[2], last_test[3]>>
    /\ \A i \in 1..NumAgents : OnFreeCell(agents[i], world)

\* C10: a strategy is called at most once; before initialize_controller
\* has run there is no plan; once it has run, initialized stays true, no
\* strategy is called again, and the plan changes in no step but
\* controller's, which removes its first element.
C10_PlanOnce ==
    [][/\ calls <= 1 /\ calls' <= 1
       /\ ~initialized => plan = << >> /\ calls = 0
       /\ initialized =>
              /\ initialized'
              /\ calls' = calls
              /\ \/ plan' = plan
                 \/ /\ pc = "controller"
                    /\ auto
                    /\ plan # << >>
                    /\ plan' = Tail(plan)]_vars

\* Automatic mode has been switched on, off and on again, and the plan of
\* the first activation, part of it consumed, is still there.
C10_Witness ==
    /\ presses = 3
    /\ auto
    /\ initialized
    /\ calls = 1
    /\ plan # << >>
    /\ keys > 0
    /\ pc = "events"

(***************************************************************************)
(* Claims about the strategies and the live game (checked under            *)
(* SpecSearch)                                                             *)
(***************************************************************************)
\* C11: no step of a strategy, from its call to its return, changes the
\* live grid, an agent's live position or colour, the door or the targets.
C11_PlanningLeavesGame ==
    [][/\ world' = world
       /\ agents' = agents
       /\ color' = color
       /\ door' = door
       /\ target_position' = target_position
       /\ target_color' = target_color]_vars

\* A strategy has returned a plan after it explored states whose door flag
\* is true, and the live door is still closed, every agent where it was.
C11_Witness ==
    /\ pc = "returned"
    /\ plan # << >>
    /\ \E s \in DOMAIN srch.parent : s[3]
    /\ ~is_door_open
    /\ world = Configs[cfg].world
    /\ agents = Configs[cfg].agents
    /\ color = Configs[cfg].color

(***************************************************************************)
(* More claims about the transition function (checked under SpecWalk)      *)
(***************************************************************************)
\* Some agent of joint state s stands at x >= 3.
Crossed(s) == \E i \in 1..Len(s[1]) : s[1][i][1] >= 3

\* C12: from the default layout, in every reachable joint state an agent at
\* x >= 3 implies the door flag is true, and the door flag turns true in no
\* move but one that puts an agent on a cell of value 3; so in every legal
\* move sequence a move onto the door switch comes strictly before the
\* first move that puts an agent at x >= 3.
C12_DoorGating ==
    [][cfg = 1 =>
          /\ Crossed(js) => js[3]
          /\ Crossed(js') => js'[3]
          /\ (~js[3] /\ js'[3]) =>
                /\ ~Crossed(js')
                /\ \E i \in 1..NumAgents :
                      /\ js'[1][i] # js[1][i]
                      /\ world[js'[1][i][2]][js'[1][i][1]] = 3]_vars

\* The default game with its first agent on its target (4,0), behind the
\* door, the switch left again, and the third agent still at its start.
C12_Witness ==
    /\ pc = "walk"
    /\ cfg = 1
    /\ js[1][1] = <<4, 0>>
    /\ js[1][3] = <<0, 4>>
    /\ js[3]
    /\ \A i \in 1..NumAgents : world[js[1][i][2]][js[1][i][1]] # 3

(***************************************************************************)
(* More claims about the running game (checked under Spec)                 *)
(***************************************************************************)
\* C13 (as the specification states it): while automatic mode is active, an
\* agent's live position changes in no step but controller's.
C13_SingleWriter ==
    [][(auto /\ agents' # agents) => pc = "controller"]_vars

(***************************************************************************)
(* More claims about the strategies (checked under SpecSearch)             *)
(***************************************************************************)
\* C14 (as the specification states it): a strategy started where no goal
\* state is reachable ends by returning the empty plan of an exhausted
\* frontier.
C14_UnreachableReturnsEmpty ==
    (/\ pc \in {"search", "returned", "raised"}
     /\ srch.pc = "done"
     /\ MinMoves(srch.start) = -1) =>
        /\ srch.ret = "no_path"
        /\ srch.result = << >>
        /\ pc # "raised"

C16_ScenarioA ==
    (/\ cfg = 6
     /\ algorithm \in {"BFS", "A-star"}
     /\ pc \in {"returned", "raised"}) =>
        /\ pc = "returned"
        /\ Len(plan) = 4
        /\ Cardinality({i \in 1..4 : plan[i] = <<0, 1, 0>>}) = 2
        /\ Cardinality({i \in 1..4 : plan[i] = <<0, 0, 1>>}) = 2

\* Following the predecessor entries of the parent map from s reaches the
\* start state, whose entry is None, within n steps.
RECURSIVE ChainReachesStart(_, _, _)
ChainReachesStart(parent, s, n) ==
    IF parent[s] = None THEN s = srch.start
    ELSE /\ n > 0
         /\ parent[s][1] \in DOMAIN parent
         /\ ChainReachesStart(parent, parent[s][1], n - 1)

\* The frontier of BFS and DFS.
FrontierOf(S) == IF S.alg = "BFS" THEN S.queue ELSE S.stack

\* C20: at every point of every search the predecessor entries lead from
\* every state of the parent map to the start state, in fewer steps than the
\* map has states (so without repeating one).  In BFS and DFS an entry of
\* the parent map is never written again, and a state is appended to the
\* frontier only when it was not in visited, where it stays from then on.
\* In A* the g_score of a state's predecessor is strictly smaller than its
\* own, and an entry of the parent map changes, and a state already known is
\* pushed again, only with a strictly lower g_score.
C20_ParentChains ==
    [][pc = "search" =>
          /\ \A s \in DOMAIN srch.parent :
                ChainReachesStart(srch.parent, s, Cardinality(DOMAIN srch.parent) - 1)
          /\ srch.alg # "A-star" =>
                /\ DOMAIN srch.parent = srch.visited
                /\ srch.visited \subseteq srch'.visited
                /\ \A s \in DOMAIN srch.parent : srch'.parent[s] = srch.parent[s]
                /\ Len(FrontierOf(srch')) <= Len(FrontierOf(srch)) + 1
                /\ Len(FrontierOf(srch')) = Len(FrontierOf(srch)) + 1 =>
                      LET ns == FrontierOf(srch')[Len(FrontierOf(srch'))]
                      IN  /\ FrontierOf(srch') = Append(FrontierOf(srch), ns)
                          /\ ns \notin srch.visited
                          /\ ns \in srch'.visited
          /\ srch.alg = "A-star" =>
                /\ DOMAIN srch.parent = DOMAIN srch.g_score
                /\ \A s \in DOMAIN srch.parent :
                      srch.parent[s] # None =>
                          srch.g_score[srch.parent[s][1]] < srch.g_score[s]
                /\ \A s \in DOMAIN srch.parent :
                      srch'.parent[s] # srch.parent[s] =>
                          srch'.g_score[s] < srch.g_score[s]
                /\ \A e \in srch'.open_list \ srch.open_list :
                      /\ srch'.g_score[e[3]] = e[2]
                      /\ e[3] \in DOMAIN srch.g_score => e[2] < srch.g_score[e[3]]]_vars

\* A* is about to try a successor it has recorded with exactly the g the
\* new path would give it, so that only the strictness of the comparison
\* keeps its parent entry; the parent map holds a chain of six states or
\* more.
C20_Witness ==
    /\ pc = "search"
    /\ srch.alg = "A-star"
    /\ srch.pc = "inner"
    /\ LET m == move_at(srch.idx)
           ns == next_state(srch.cur[1], srch.cur[2], srch.cur[3], m[1], m[2], m[3])
       IN  /\ ns # None
           /\ ns \in DOMAIN srch.g_score
           /\ srch.g + 1 = srch.g_score[ns]
    /\ \E s \in DOMAIN srch.parent :
          /\ srch.g_score[s] >= 5
          /\ ChainReachesStart(srch.parent, s, srch.g_score[s])

\* Whether a move from p by the delta d is open to an agent when the door
\* flag is door_open, and nothing else is looked at: the destination lies in
\* the grid and is no obstacle, the door cell counting as one only while the
\* flag is false.
OpenTo(p, d, door_open) ==
    LET x == p[1] + Deltas[d][1]
        y == p[2] + Deltas[d][2]
    IN  /\ x \in 0..(TILES_HORIZONTAL - 1)
        /\ y \in 0..(TILES_VERTICAL - 1)
        /\ world[y][x] # 1 \/ (<<x, y>> = door /\ door_open)

\* C21: in every reachable joint state, wherever the other agents stand,
\* next_state accepts the move of an agent exactly when the move is open to
\* an agent at its position with the state's door flag, and then puts it on
\* its position plus the delta; a cell held by another agent is entered like
\* an empty one.
C21_NoBlocking ==
    pc = "walk" =>
        \A i \in 1..NumAgents, d \in 1..4 :
            LET ns == next_state(js[1], js[2], js[3], i - 1,
                                 Deltas[d][1], Deltas[d][2])
            IN  IF OpenTo(js[1][i], d, js[3])
                THEN /\ ns # None
                     /\ ns[1][i] = <<js[1][i][1] + Deltas[d][1],
                                     js[1][i][2] + Deltas[d][2]>>
                ELSE ns = None

\* In the default game the first two agents stand on one cell, next to the
\* cell the third stands on, and next_state lets the third join them.
C21_Witness ==
    /\ pc = "walk"
    /\ cfg = 1
    /\ js[1][1] = <<1, 2>>
    /\ js[1][2] = <<1, 2>>
    /\ js[1][3] = <<1, 3>>
    /\ next_state(js[1], js[2], js[3], 2, 0, -1) # None
    /\ next_state(js[1], js[2], js[3], 2, 0, -1)[1][3] = js[1][1]

(***************************************************************************)
(* More claims about the game (checked under Spec)                         *)
(***************************************************************************)
\* The number of moves controller has popped from the plan computed.
Popped == Len(srch.result) - Len(plan)

\* The state the plan computed reaches after its first k moves.
Planned(k) == Replay(srch.start, SubSeq(srch.result, 1, k))

\* The colours col and the grid w hold what the planned state s flags.
FlagsOf(s, col, w) ==
    /\ \A i \in 1..NumAgents : s[2][i] => col[i] = target_color[i]
    /\ s[3] => w[door[2]][door[1]] = 0

\* The planned state reached by move k of the plan computed (the snapshot
\* for k = 0), given the planned state before that move.
PlannedAfter(before, k) ==
    IF k > 0 THEN Replay(before, <<srch.result[k]>>) ELSE before

\* A game with the agents at ag, the colours col and the grid w is where the
\* plan says it is: the agents stand on the positions of the planned state
\* now, and the flags planned hold in the game (before game_logic has run,
\* those of the planned state one move earlier).
Follows(before, now, ag, col, w, before_logic) ==
    /\ now # None
    /\ ag = now[1]
    /\ IF before_logic THEN FlagsOf(before, col, w) ELSE FlagsOf(now, col, w)

\* The plan left is the rest of the plan computed.
PlanIsRest ==
    /\ calls > 0
    /\ pc # "raised"
    /\ Popped >= 0
    /\ plan = SubSeq(srch.result, Popped + 1, Len(srch.result))

\* The live game is where the plan computed says it is.
Match ==
    /\ PlanIsRest
    /\ LET before == Planned(IF Popped > 0 THEN Popped - 1 ELSE 0)
           now == PlannedAfter(before, Popped)
       IN  Follows(before, now, agents, color, world, pc = "logic")

\* C17: once initialize_controller has stored a plan, and as long as no arrow
\* key is handled afterwards, the live game follows the plan.  The step that
\* stores the plan leaves the live game at the snapshot the plan starts
\* from.  The other steps of the event loop, arrow keys apart, leave the
\* agents, the colours, the grid and the plan as they are.  Each time
\* controller pops a move it is the next move of the plan computed, test_move
\* accepts it and the agents stand on the planned positions; after the
\* game_logic of that pass of the loop every agent flagged coloured in the
\* planned state has its target colour and the door cell is open if the
\* planned state flags it open; and after the last move game_complete() is
\* true and ends the loop.
C17_LiveRefinesPlan ==
    [][/\ (calls' = calls + 1 /\ pc' # "raised") =>
             /\ plan' = srch'.result
             /\ agents = srch'.start[1]
             /\ \A i \in 1..NumAgents :
                   srch'.start[2][i] => color[i] = target_color[i]
             /\ srch'.start[3] => world[door[2]][door[1]] = 0
             /\ UNCHANGED <<agents, color, world>>
       /\ (keys' = keys /\ calls > 0 /\ pc = "events") =>
             /\ pc' \in {"events", "controller", "exit"}
             /\ UNCHANGED <<agents, color, world, plan, srch>>
       /\ (PlanIsRest /\ pc \in {"controller", "logic"}) =>
             LET before == Planned(IF Popped > 0 THEN Popped - 1 ELSE 0)
                 now == PlannedAfter(before, Popped)
                 pops == pc = "controller" /\ auto /\ plan # << >>
             IN  Follows(before, now, agents, color, world, pc = "logic") =>
                    /\ srch' = srch
                    /\ pc' = IF pc = "controller" THEN "logic" ELSE "events"
                    /\ IF pops
                       THEN /\ Head(plan) = srch.result[Popped + 1]
                            /\ last_test'[1]
                            /\ plan' = Tail(plan)
                            /\ Follows(now, PlannedAfter(now, Popped + 1),
                                       agents', color', world', TRUE)
                       ELSE /\ plan' = plan
                            /\ Follows(before, now, agents', color', world',
                                       pc' = "logic")
                    /\ (pc = "logic" /\ plan = << >> /\ srch.result # << >>) =>
                          /\ game_complete(agents', color')
                          /\ ~loop']_vars

\* A plan of six moves or more through the door has been carried out to its
\* end, and the game is complete.
C17_Witness ==
    /\ pc = "events"
    /\ Match
    /\ plan = << >>
    /\ Len(srch.result) >= 6
    /\ Planned(Popped)[3]
    /\ ~srch.start[3]
    /\ game_complete(agents, color)
    /\ ~loop

C19_Frame ==
    [][\E a \in 1..NumAgents, d \in 1..4 :
          LET x == js[1][a][1] + Deltas[d][1]
              y == js[1][a][2] + Deltas[d][2]
          IN  /\ js'[1][a] = <<x, y>>
              /\ \A i \in 1..NumAgents \ {a} :
                    /\ js'[1][i] = js[1][i]
                    /\ js'[2][i] = js[2][i]
              /\ js'[2][a] <=> (js[2][a] \/ world[y][x] = 2)
              /\ js'[3] <=> (js[3] \/ world[y][x] = 3)]_vars

\* In the default game the second agent stands on the colour tile with its
\* flag set, the third on the door switch with the door flag set, and the
\* first and third agents' colour flags are still false.
C19_Witness ==
    /\ pc = "walk"
    /\ cfg = 1
    /\ js[1][2] = <<2, 1>>
    /\ js[1][3] = <<2, 3>>
    /\ js[2] = <<FALSE, TRUE, FALSE>>
    /\ js[3]

====
